---------------------------- MODULE Spec2Model ----------------------------
(***************************************************************************)
(* A model of the DLT record decoder (crates/dlt_convert/src/lib.rs) and   *)
(* of the driver loop that feeds it (src/main.rs).                         *)
(*                                                                         *)
(* Buffers are sequences of bytes (0..255).  A Rust slice &data[k..] is    *)
(* the sequence Drop(data, k); Rust's 0-based index i is index i+1 here.   *)
(*                                                                         *)
(* Number representations (TLC integers are 32 bits wide, the program's    *)
(* go up to 64):                                                           *)
(*   - a u32 that is only added to is kept as a pair <<hi, lo>> of 16-bit  *)
(*     halves, value hi * 65536 + lo;                                      *)
(*   - an i32 is kept as its signed value;                                 *)
(*   - a u32 or usize obtained by a cast or by wrapping arithmetic from    *)
(*     small values is kept as its signed representative r: the value is   *)
(*     r when r >= 0 and 2^w + r when r < 0.                               *)
(* Arithmetic overflow is not the same in every build of the program: with *)
(* overflow checks (the debug profile) it panics, without them (the        *)
(* release profile) it wraps.  overflow_checks holds the profile and is    *)
(* chosen freely in every initial state.                                   *)
(***************************************************************************)
EXTENDS Integers, Sequences, FiniteSets, TLC

VARIABLES
    overflow_checks,  \* TRUE: arithmetic overflow panics; FALSE: it wraps
    data,             \* main: the remaining buffer (the cursor)
    pc,               \* position of the process or of the function under check
    decoded,          \* main: the messages printed so far, in order
    last,             \* main: input and outcome of the latest parse_message call
    built,            \* ghost: the records the input buffer was built from
    arg,              \* input of the pure function under check
    ret               \* its result

vars == <<overflow_checks, data, pc, decoded, last, built, arg, ret>>

Byte == 0..255

(***************************************************************************)
(* Slices                                                                  *)
(***************************************************************************)
Take(s, n) == SubSeq(s, 1, n)
Drop(s, n) == SubSeq(s, n + 1, Len(s))

\* htyp & mask != 0, for a one-bit mask.
BitSet(b, mask) == (b \div mask) % 2 = 1

(***************************************************************************)
(* strip_null                                                              *)
(***************************************************************************)
RECURSIVE StripNullFrom(_, _)
\* The loop of strip_null with i (1-based) the next index to look at,
\* walking down from the last one; falling off the loop returns the slice.
StripNullFrom(slice, i) ==
    IF i = 0 THEN slice
    ELSE IF slice[i] # 0 THEN Take(slice, i)
    ELSE StripNullFrom(slice, i - 1)

\* A plausible bug: the exclusive range ..i, which drops the last non-zero byte.
StripNullExclusive(slice) ==
    LET idx == {i \in 1..Len(slice) : slice[i] # 0}
    IN  IF idx = {} THEN slice
        ELSE Take(slice, (CHOOSE i \in idx : \A j \in idx : j <= i) - 1)

strip_null(slice) == StripNullFrom(slice, Len(slice))

\* String::from_utf8_lossy on the byte sequences of this model: bytes below
\* 0x80 are themselves; no identifier or payload of the model's inputs holds
\* a continuation byte (0x80..0xBF), so every higher byte is an invalid
\* sequence of its own and becomes one U+FFFD (65533).
from_utf8_lossy(bytes) ==
    [i \in 1..Len(bytes) |-> IF bytes[i] < 128 THEN bytes[i] ELSE 65533]

(***************************************************************************)
(* Integers from bytes                                                     *)
(***************************************************************************)
\* u32::from_le_bytes, as <<hi, lo>> halves.
U32FromLeBytes(b) == <<b[4] * 256 + b[3], b[2] * 256 + b[1]>>

\* i32::from_le_bytes, as the signed value.
I32FromLeBytes(b) ==
    (IF b[4] >= 128 THEN b[4] - 256 ELSE b[4]) * 16777216
        + b[3] * 65536 + b[2] * 256 + b[1]

\* u16::from_be_bytes
U16FromBeBytes(b) == b[1] * 256 + b[2]


(***************************************************************************)
(* Outcomes.  parse_message and its parts return Option: Some(value, rest) *)
(* or None; every failure the code reports is the same None.  err names    *)
(* the place that produced it, in the words of the error taxonomy:         *)
(*   TruncatedInput        a `?` on split_first_chunk                      *)
(*   InvalidMagic          the pattern comparison, lib.rs:17-19            *)
(*   UnsupportedByteOrder  the msb_first test, lib.rs:23-26                *)
(* A panic is no return value: the process aborts at the named place.      *)
(***************************************************************************)
Ok(v, rest) == [kind |-> "Some", val |-> v, rest |-> rest, err |-> "none"]
Fail(err) == [kind |-> "None", err |-> err]
Panic(site) == [kind |-> "Panic", err |-> site]

(***************************************************************************)
(* parse_storage_header                                                    *)
(***************************************************************************)
\* `microseconds as u32 / 1000000`: for a negative i32 the cast gives
\* 2^32 + m, and 2^32 = 4294 * 1000000 + 967296.
MicrosAsU32DivMillion(m) ==
    IF m >= 0 THEN m \div 1000000
    ELSE 4294 + ((967296 + m) \div 1000000)

\* Rust's i32 `%` truncates toward zero: the remainder has the dividend's sign.
RustRem(a, b) ==
    IF a >= 0 \/ a % b = 0 THEN a % b ELSE (a % b) - b

\* u32 + u32 on <<hi, lo>> halves, q < 65536: the exact sum, hi unreduced.
U32AddRaw(x, q) ==
    LET lo == x[2] + q
    IN  <<x[1] + (lo \div 65536), lo % 65536>>

\* chrono's DateTime::from_timestamp(secs, nsecs) for secs >= 0 far inside
\* chrono's range of years: None when nsecs >= 2,000,000,000, or when
\* nsecs >= 1,000,000,000 outside a leap second (secs % 60 = 59).  nsecs is
\* the signed representative of the u32 the code passes: a negative one is a
\* u32 of at least 2^31.
FromTimestamp(secs, nsecs) ==
    LET secsMod60 == ((secs[1] % 60) * 16 + secs[2]) % 60
    IN  IF nsecs < 0 \/ nsecs >= 2000000000 THEN [some |-> FALSE]
        ELSE IF nsecs >= 1000000000 /\ secsMod60 # 59 THEN [some |-> FALSE]
        ELSE [some |-> TRUE, val |-> [secs |-> secs, nanos |-> nsecs]]

\* lib.rs:74-81: the timestamp of a storage header, or the panic it ends in.
Timestamp(seconds_bytes, microseconds_bytes, oc) ==
    LET seconds == U32FromLeBytes(seconds_bytes)
        microseconds == I32FromLeBytes(microseconds_bytes)
        sum == U32AddRaw(seconds, MicrosAsU32DivMillion(microseconds))
        overflow == sum[1] >= 65536
        secs == <<sum[1] % 65536, sum[2]>>
        nsecs == RustRem(microseconds, 1000000) * 1000
        t == FromTimestamp(secs, nsecs)
    IN  IF overflow /\ oc THEN Panic("add_overflow:lib.rs:78")
        ELSE IF ~t.some THEN Panic("unwrap:lib.rs:81")
        ELSE Ok(t.val, <<>>)

parse_storage_header(d, oc) ==
    IF Len(d) < 16 THEN Fail("TruncatedInput")
    ELSE
        LET pattern_bytes == SubSeq(d, 1, 4)
            seconds_bytes == SubSeq(d, 5, 8)
            microseconds_bytes == SubSeq(d, 9, 12)
            ecu_bytes == SubSeq(d, 13, 16)
            ts == Timestamp(seconds_bytes, microseconds_bytes, oc)
        IN  IF ts.kind = "Panic" THEN ts
            ELSE Ok([pattern |-> pattern_bytes,
                     timestamp |-> ts.val,
                     ecu |-> from_utf8_lossy(strip_null(ecu_bytes))],
                    Drop(d, 16))

(***************************************************************************)
(* parse_standard_header                                                   *)
(***************************************************************************)
parse_standard_header(d) ==
    IF Len(d) < 4 THEN Fail("TruncatedInput")
    ELSE Ok([htyp |-> d[1], mcnt |-> d[2],
             len |-> U16FromBeBytes(SubSeq(d, 3, 4))],
            Drop(d, 4))

(***************************************************************************)
(* parse_extensions                                                        *)
(***************************************************************************)
ExtensionBytes(ecu_id, session_id, timestamp) ==
    (IF ecu_id THEN 4 ELSE 0) + (IF session_id THEN 4 ELSE 0)
        + (IF timestamp THEN 4 ELSE 0)

\* &data[bytes..] panics when bytes > data.len(); no None is ever returned.
parse_extensions(ecu_id, session_id, timestamp, d) ==
    LET bytes == ExtensionBytes(ecu_id, session_id, timestamp)
    IN  IF bytes > Len(d) THEN Panic("slice_index:lib.rs:139")
        ELSE Ok(<<>>, Drop(d, bytes))

(***************************************************************************)
(* parse_extended_header, MessageInfo, LogTypeInfo                         *)
(***************************************************************************)
LogTypeInfo_from_raw(raw) ==
    CASE raw = 1 -> "Fatal"
      [] raw = 2 -> "Error"
      [] raw = 3 -> "Warn"
      [] raw = 4 -> "Info"
      [] raw = 5 -> "Debug"
      [] raw = 6 -> "Verbose"
      [] OTHER -> "Reserved"

MessageInfo_from_raw(ty, raw) ==
    CASE ty = 0 -> [type |-> "Log", level |-> LogTypeInfo_from_raw(raw)]
      [] ty = 1 -> [type |-> "AppTrace", level |-> "none"]
      [] ty = 2 -> [type |-> "NwTrace", level |-> "none"]
      [] ty = 3 -> [type |-> "Control", level |-> "none"]
      [] OTHER -> [type |-> "Reserved", level |-> "none"]

\* A plausible bug: the type code taken from bits 0-2, verbose bit included.
MessageTypeUnshifted(msin) == MessageInfo_from_raw(msin % 8, (msin \div 16) % 16)

\* lib.rs:220: (msin >> 1) & 0b111 and (msin >> 4) & 0b1111.
MessageTypeOf(msin) == MessageInfo_from_raw((msin \div 2) % 8, (msin \div 16) % 16)

parse_extended_header(d) ==
    IF Len(d) < 10 THEN Fail("TruncatedInput")
    ELSE Ok([message_type |-> MessageTypeOf(d[1]),
             noar |-> d[2],
             apid |-> from_utf8_lossy(strip_null(SubSeq(d, 3, 6))),
             ctid |-> from_utf8_lossy(strip_null(SubSeq(d, 7, 10)))],
            Drop(d, 10))

(***************************************************************************)
(* parse_message                                                           *)
(***************************************************************************)
Magic == <<68, 76, 84, 1>>

\* A plausible bug: the 16 bytes of the storage header not added back.
RestBytesNoStorage(len, parsed_bytes, oc) ==
    IF oc /\ len < parsed_bytes THEN Panic("sub_overflow:lib.rs:46")
    ELSE Ok(len - parsed_bytes, <<>>)

\* lib.rs:46: standard_header.len as usize - parsed_bytes + 16, evaluated
\* left to right in usize.  With overflow checks the subtraction panics when
\* len < parsed_bytes; without, it wraps, and val is the signed
\* representative of the usize (negative: 2^64 + val).
RestBytes(len, parsed_bytes, oc) ==
    IF oc /\ len < parsed_bytes THEN Panic("sub_overflow:lib.rs:46")
    ELSE Ok(len - parsed_bytes + 16, <<>>)

\* A plausible bug: the reserved field not skipped.
SplitReservedNone(d) == Ok(<<>>, d)

\* lib.rs:42: data.split_at(6), which panics when fewer than 6 bytes remain.
SplitReserved(d) ==
    IF 6 > Len(d) THEN Panic("split_at:lib.rs:42")
    ELSE Ok(Take(d, 6), Drop(d, 6))

\* lib.rs:48: data.split_at(rest_bytes), mid a usize given by its signed
\* representative; it panics when mid > data.len().
SplitPayload(d, mid) ==
    IF mid < 0 \/ mid > Len(d) THEN Panic("split_at:lib.rs:48")
    ELSE Ok(Take(d, mid), Drop(d, mid))

\* lib.rs:50-58: the message and the remainder.
Finish(storage_header, standard_header, extended_header, pl) ==
    IF pl.kind # "Some" THEN pl
    ELSE Ok([storage_header |-> storage_header,
             standard_header |-> standard_header,
             extended_header |-> extended_header,
             payload |-> pl.val],
            pl.rest)

\* lib.rs:48, d the data after the reserved field, rb the outcome of line 46.
AfterRestBytes(storage_header, standard_header, extended_header, d, rb) ==
    IF rb.kind # "Some" THEN rb
    ELSE Finish(storage_header, standard_header, extended_header,
                SplitPayload(d, rb.val))

\* lib.rs:44-46: parsed_bytes is the distance from start to the data after
\* the reserved field.
AfterReserved(start, oc, storage_header, standard_header, extended_header, un) ==
    IF un.kind # "Some" THEN un
    ELSE AfterRestBytes(storage_header, standard_header, extended_header,
                        un.rest,
                        RestBytes(standard_header.len,
                                  Len(start) - Len(un.rest), oc))

\* lib.rs:36-42, eh the outcome of the optional extended header.
AfterExtendedHeader(start, oc, storage_header, standard_header, eh) ==
    IF eh.kind # "Some" THEN eh
    ELSE AfterReserved(start, oc, storage_header, standard_header, eh.val,
                       SplitReserved(eh.rest))

\* lib.rs:37: parse_extended_header(data).map(|(it, data)| (Some(it), data))
MapSome(eh) ==
    IF eh.kind # "Some" THEN eh
    ELSE Ok([present |-> TRUE, header |-> eh.val], eh.rest)

\* lib.rs:32-40, ex the outcome of parse_extensions.
AfterExtensions(start, oc, storage_header, standard_header, ex) ==
    IF ex.kind # "Some" THEN ex
    ELSE AfterExtendedHeader(start, oc, storage_header, standard_header,
            IF BitSet(standard_header.htyp, 1)
            THEN MapSome(parse_extended_header(ex.rest))
            ELSE Ok([present |-> FALSE], ex.rest))

\* lib.rs:21-32, st the outcome of parse_standard_header.
AfterStandardHeader(start, oc, storage_header, st) ==
    IF st.kind # "Some" THEN st
    ELSE IF BitSet(st.val.htyp, 2) THEN Fail("UnsupportedByteOrder")
    ELSE AfterExtensions(start, oc, storage_header, st.val,
            parse_extensions(BitSet(st.val.htyp, 4), BitSet(st.val.htyp, 8),
                             BitSet(st.val.htyp, 16), st.rest))

\* lib.rs:15-21, sh the outcome of parse_storage_header.
AfterStorageHeader(start, oc, sh) ==
    IF sh.kind # "Some" THEN sh
    ELSE IF sh.val.pattern # Magic THEN Fail("InvalidMagic")
    ELSE AfterStandardHeader(start, oc, sh.val, parse_standard_header(sh.rest))

parse_message(start, oc) ==
    AfterStorageHeader(start, oc, parse_storage_header(start, oc))

(***************************************************************************)
(* main: the driver loop, main.rs:188-211                                  *)
(***************************************************************************)
\* What one iteration prints: the three headers and the payload as text.
Printed(msg) ==
    [storage_header |-> msg.storage_header,
     standard_header |-> msg.standard_header,
     extended_header |-> msg.extended_header,
     payload |-> msg.payload,
     text |-> from_utf8_lossy(strip_null(msg.payload))]

\* One iteration whose parse_message returns Some: print, data = rest.
Decode ==
    /\ pc = "loop"
    /\ data # <<>>
    /\ LET r == parse_message(data, overflow_checks)
       IN  /\ r.kind = "Some"
           /\ decoded' = Append(decoded, Printed(r.val))
           /\ data' = r.rest
           /\ last' = [input |-> data, out |-> r]
    /\ UNCHANGED <<overflow_checks, pc, built, arg, ret>>

\* One iteration whose parse_message returns None: main's unwrap panics.
DecodeNone ==
    /\ pc = "loop"
    /\ data # <<>>
    /\ LET r == parse_message(data, overflow_checks)
       IN  /\ r.kind = "None"
           /\ last' = [input |-> data, out |-> r]
    /\ pc' = "panicked"
    /\ UNCHANGED <<overflow_checks, data, decoded, built, arg, ret>>

\* One iteration in which parse_message itself panics.
DecodePanic ==
    /\ pc = "loop"
    /\ data # <<>>
    /\ LET r == parse_message(data, overflow_checks)
       IN  /\ r.kind = "Panic"
           /\ last' = [input |-> data, out |-> r]
    /\ pc' = "panicked"
    /\ UNCHANGED <<overflow_checks, data, decoded, built, arg, ret>>

\* while !data.is_empty() is false: main returns.
Exit ==
    /\ pc = "loop"
    /\ data = <<>>
    /\ pc' = "done"
    /\ UNCHANGED <<overflow_checks, data, decoded, last, built, arg, ret>>

Next == Decode \/ DecodeNone \/ DecodePanic \/ Exit

(***************************************************************************)
(* Input buffers.  A record image is laid out as in the wire table: magic, *)
(* seconds, microseconds, sender id, flags, counter, total_length, the     *)
(* extension fields and the extended header the flags announce, six        *)
(* reserved bytes, payload.  r describes one image:                        *)
(*   magic, usecs  the 4 bytes of the pattern and of the microseconds      *)
(*   flags, mcnt   the flags and counter bytes                             *)
(*   plen          the number of payload bytes                             *)
(*   len           the total_length field                                  *)
(*   cut           the number of bytes of the image kept                   *)
(***************************************************************************)
MaxRecords == 2
MaxPayload == 17

PayloadBytes(mcnt, n) ==
    [i \in 1..n |-> IF i = n THEN 0 ELSE 65 + ((i + mcnt) % 26)]

ExtFieldBytes(flags) ==
    (IF BitSet(flags, 4) THEN <<69, 67, 85, 49>> ELSE <<>>)
        \o (IF BitSet(flags, 8) THEN <<0, 0, 0, 7>> ELSE <<>>)
        \o (IF BitSet(flags, 16) THEN <<0, 0, 1, 44>> ELSE <<>>)

ExtHeaderBytes(flags) ==
    IF BitSet(flags, 1) THEN <<65, 2, 65, 80, 80, 0, 67, 84, 88, 0>> ELSE <<>>

\* total_length of a record with these flags and plen payload bytes.
ConsistentLen(flags, plen) ==
    4 + Len(ExtFieldBytes(flags)) + Len(ExtHeaderBytes(flags)) + 6 + plen

FullImage(r) ==
    r.magic \o <<0, 0, 0, 0>> \o r.usecs \o <<69, 67, 85, 0>>
        \o <<r.flags, r.mcnt, r.len \div 256, r.len % 256>>
        \o ExtFieldBytes(r.flags) \o ExtHeaderBytes(r.flags)
        \o <<17, 18, 19, 20, 21, 22>> \o PayloadBytes(r.mcnt, r.plen)

Image(r) == Take(FullImage(r), r.cut)

RECURSIVE Concat(_)
Concat(rs) == IF rs = <<>> THEN <<>> ELSE Image(Head(rs)) \o Concat(Tail(rs))

Rec(magic, usecs, flags, mcnt, plen, len, cut) ==
    [magic |-> magic, usecs |-> usecs, flags |-> flags, mcnt |-> mcnt,
     plen |-> plen, len |-> len, cut |-> cut]

ValidRec(usecs, flags, mcnt, plen) ==
    Rec(Magic, usecs, flags, mcnt, plen, ConsistentLen(flags, plen),
        16 + ConsistentLen(flags, plen))

\* 1,500,000 and -1, little-endian.
UsecChoices == {<<96, 227, 22, 0>>, <<255, 255, 255, 255>>}
\* Every combination of the extended-header flag and the extension flags.
AllExtFlags == {e + 4 * k : e \in {0, 1}, k \in 0..7}
\* Every number of extension fields, with and without the extended header;
\* 53 and 61 also carry the version bits (bit 5) that the decoder ignores.
StreamFlags == {0, 4, 12, 28, 1, 9, 53, 61}
PayloadLens == {0, MaxPayload}

BadMagics == {<<69, 76, 84, 1>>, <<68, 76, 84, 2>>}
GoodUsecs == <<96, 227, 22, 0>>

ValidRecsAt(i) ==
    {ValidRec(GoodUsecs, f, i, n) : f \in StreamFlags, n \in PayloadLens}

RECURSIVE Streams(_)
\* The sequences of n valid records, the i-th with counter i.
Streams(n) ==
    IF n = 0 THEN {<<>>}
    ELSE {Append(s, r) : s \in Streams(n - 1), r \in ValidRecsAt(n)}

\* A wrong pattern, cut inside and after the storage header.
BadMagicRecs ==
    {Rec(m, u, f, 1, 0, ConsistentLen(f, 0), c) :
        m \in BadMagics, u \in UsecChoices, f \in {0, 2},
        c \in {3, 4, 15, 16, 26}}

\* The big-endian flag beside the flag combination f.
BigEndianRecs(f) ==
    {Rec(Magic, u, f + 2, 1, 0, l, c) :
        u \in UsecChoices, l \in {0, ConsistentLen(f, 0)},
        c \in {20, 16 + ConsistentLen(f, 0)}}

\* A valid image cut at every length.
CutRecs(f, n) ==
    {Rec(Magic, GoodUsecs, f, 1, n, ConsistentLen(f, n), c) :
        c \in 0..(15 + ConsistentLen(f, n))}

\* A total_length that does not fit the image.
BadLenRecs(f, n) ==
    {Rec(Magic, GoodUsecs, f, 1, n, l, 16 + ConsistentLen(f, n)) :
        l \in {0, ConsistentLen(f, n) - 1, ConsistentLen(f, n) + 1,
               ConsistentLen(f, n) + 2 * MaxPayload, 65535}}

MalformedRecs ==
    BadMagicRecs
        \cup UNION {BigEndianRecs(f) : f \in AllExtFlags}
        \cup UNION {CutRecs(f, n) \cup BadLenRecs(f, n) :
                    f \in AllExtFlags, n \in PayloadLens}

\* What may follow a malformed image: nothing, or one valid record.
Tails == {<<>>, <<ValidRec(GoodUsecs, 1, 2, MaxPayload)>>}

Inputs ==
    UNION {Streams(n) : n \in 0..MaxRecords}
        \cup {<<r>> \o t : r \in MalformedRecs, t \in Tails}

Init ==
    /\ overflow_checks \in BOOLEAN
    /\ built \in Inputs
    /\ data = Concat(built)
    /\ pc = "loop"
    /\ decoded = <<>>
    /\ last = [input |-> <<>>, out |-> Fail("none")]
    /\ arg = <<>>
    /\ ret = <<>>

Spec == Init /\ [][Next]_vars

(***************************************************************************)
(* parse_storage_header alone, on one storage header                       *)
(***************************************************************************)
\* 0, 1, 59, 1700000000, 2^31 - 1, 2^32 - 1, little-endian.
SecondsChoices ==
    {<<0, 0, 0, 0>>, <<1, 0, 0, 0>>, <<59, 0, 0, 0>>, <<0, 241, 83, 101>>,
     <<255, 255, 255, 127>>, <<255, 255, 255, 255>>}

\* 0, 1, 999999, 1000000, 1500000, 2^31 - 1, -1, -1000000, -2^31.
MicrosecondsChoices ==
    {<<0, 0, 0, 0>>, <<1, 0, 0, 0>>, <<63, 66, 15, 0>>, <<64, 66, 15, 0>>,
     <<96, 227, 22, 0>>, <<255, 255, 255, 127>>, <<255, 255, 255, 255>>,
     <<192, 189, 240, 255>>, <<0, 0, 0, 128>>}

TimeInit ==
    /\ overflow_checks \in BOOLEAN
    /\ arg \in [seconds : SecondsChoices, microseconds : MicrosecondsChoices]
    /\ ret = <<>>
    /\ pc = "call"
    /\ data = <<>>
    /\ decoded = <<>>
    /\ last = [input |-> <<>>, out |-> Fail("none")]
    /\ built = <<>>

TimeCall ==
    /\ pc = "call"
    /\ ret' = parse_storage_header(
                  Magic \o arg.seconds \o arg.microseconds \o <<69, 67, 85, 0>>,
                  overflow_checks)
    /\ pc' = "returned"
    /\ UNCHANGED <<overflow_checks, data, decoded, last, built, arg>>

TimeSpec == TimeInit /\ [][TimeCall]_vars

(***************************************************************************)
(* strip_null alone, applied once and then to its own result               *)
(***************************************************************************)
MaxStripLen == 4
StripBytes == {0, 65, 255}

TrimInit ==
    /\ overflow_checks = FALSE
    /\ arg \in UNION {[1..n -> StripBytes] : n \in 0..MaxStripLen}
    /\ ret = <<>>
    /\ pc = "call"
    /\ data = <<>>
    /\ decoded = <<>>
    /\ last = [input |-> <<>>, out |-> Fail("none")]
    /\ built = <<>>

TrimCall ==
    /\ pc = "call"
    /\ ret' = <<strip_null(arg)>>
    /\ pc' = "returned"
    /\ UNCHANGED <<overflow_checks, data, decoded, last, built, arg>>

TrimAgain ==
    /\ pc = "returned"
    /\ ret' = Append(ret, strip_null(ret[1]))
    /\ pc' = "returned_twice"
    /\ UNCHANGED <<overflow_checks, data, decoded, last, built, arg>>

TrimSpec == TrimInit /\ [][TrimCall \/ TrimAgain]_vars

(***************************************************************************)
(* parse_extended_header alone, on every message_info byte                 *)
(***************************************************************************)
InfoInit ==
    /\ overflow_checks = FALSE
    /\ arg \in [msin : Byte, noar : {0, 2}]
    /\ ret = <<>>
    /\ pc = "call"
    /\ data = <<>>
    /\ decoded = <<>>
    /\ last = [input |-> <<>>, out |-> Fail("none")]
    /\ built = <<>>

InfoCall ==
    /\ pc = "call"
    /\ ret' = parse_extended_header(
                  <<arg.msin, arg.noar, 65, 80, 80, 0, 67, 84, 88, 0>>)
    /\ pc' = "returned"
    /\ UNCHANGED <<overflow_checks, data, decoded, last, built, arg>>

InfoSpec == InfoInit /\ [][InfoCall]_vars

(***************************************************************************)
(* The claims.  In and Out are the input and the outcome of the latest     *)
(* parse_message call of main; the Claim... operators read a buffer the    *)
(* way the claims describe it, from the wire layout.                       *)
(***************************************************************************)
In == last.input
Out == last.out
Called == In # <<>>

ClaimFlags(b) == b[17]
ClaimTotalLength(b) == b[19] * 256 + b[20]
\* k: the number of set extension flags (bits 2, 3, 4).
ClaimK(b) == Cardinality({m \in {4, 8, 16} : BitSet(ClaimFlags(b), m)})
\* e: 1 if the extended-header flag (bit 0) is set.
ClaimE(b) == IF BitSet(ClaimFlags(b), 1) THEN 1 ELSE 0
\* Bytes from the start of the standard header to the end of the reserved field.
ClaimHeaderBytes(b) == 4 + 4 * ClaimK(b) + 10 * ClaimE(b) + 6
\* The microseconds field (bytes 9..12, little-endian) is not negative.
ClaimMicrosNonNegative(b) == b[12] < 128

AllValid ==
    \A i \in 1..Len(built) :
        /\ built[i].magic = Magic
        /\ built[i].usecs[4] < 128
        /\ ~BitSet(built[i].flags, 2)
        /\ built[i].len = ConsistentLen(built[i].flags, built[i].plen)
        /\ built[i].cut = 16 + built[i].len

SameRecord(m, r) ==
    /\ m.standard_header.htyp = r.flags
    /\ m.standard_header.mcnt = r.mcnt
    /\ m.standard_header.len = r.len
    /\ m.extended_header.present = BitSet(r.flags, 1)
    /\ m.payload = PayloadBytes(r.mcnt, r.plen)

\* C1: a buffer that is the concatenation of N valid records (right pattern,
\* big-endian flag clear, total_length consistent, and here also a
\* microseconds field that is not negative) decodes into exactly those N
\* records, in order, field for field, and nothing remains: main never
\* panics on it and ends with the buffer empty.
C1_RoundTrip ==
    AllValid =>
        /\ pc # "panicked"
        /\ Len(decoded) <= Len(built)
        /\ \A i \in 1..Len(decoded) : SameRecord(decoded[i], built[i])
        /\ pc = "done" => (Len(decoded) = Len(built) /\ data = <<>>)

\* C2: whenever parse_message succeeds the payload has
\* total_length - 4 - 4k - 10e - 6 bytes, and the remainder starts exactly
\* 16 + total_length bytes after the start of the record.
C2_PayloadLength ==
    (Called /\ Out.kind = "Some") =>
        /\ Len(Out.val.payload) = ClaimTotalLength(In) - ClaimHeaderBytes(In)
        /\ 16 + ClaimTotalLength(In) <= Len(In)
        /\ Out.rest = Drop(In, 16 + ClaimTotalLength(In))
        /\ Out.val.payload =
               SubSeq(In, 16 + ClaimHeaderBytes(In) + 1, 16 + ClaimTotalLength(In))

\* A success with the extended-header flag clear, three extension fields and
\* a full payload.
C2_Witness ==
    /\ Called /\ Out.kind = "Some"
    /\ ClaimE(In) = 0 /\ ClaimK(In) = 3
    /\ Len(Out.val.payload) = MaxPayload

\* The headers of b decode: the pattern is right, the big-endian flag is
\* clear, the timestamp is an ordinary one, and b reaches past the reserved
\* field.
ClaimHeadersDecode(b) ==
    /\ Len(b) >= 20
    /\ Take(b, 4) = Magic
    /\ ClaimMicrosNonNegative(b)
    /\ ~BitSet(ClaimFlags(b), 2)
    /\ Len(b) >= 16 + ClaimHeaderBytes(b)

\* The computed payload length of b is negative, or more than what remains
\* after the reserved field.
ClaimPayloadOutOfRange(b) ==
    \/ ClaimTotalLength(b) - ClaimHeaderBytes(b) < 0
    \/ ClaimTotalLength(b) - ClaimHeaderBytes(b) > Len(b) - 16 - ClaimHeaderBytes(b)

\* C3: when the headers decode and the computed payload length is negative
\* or exceeds the remaining buffer, parse_message returns the
\* PayloadLengthOutOfRange error as a value and the cursor stays where it was.
C3_PayloadLengthOutOfRange ==
    (Called /\ ClaimHeadersDecode(In) /\ ClaimPayloadOutOfRange(In)) =>
        /\ Out.kind = "None"
        /\ Out.err = "PayloadLengthOutOfRange"
        /\ data = In

\* C4: a buffer whose first 4 bytes are not the magic constant fails with
\* InvalidMagic whatever follows them.  (The code's failures are all the
\* same None; a buffer shorter than the storage header fails in the header's
\* own length test.)
C4_InvalidMagic ==
    (Called /\ Len(In) >= 4 /\ Take(In, 4) # Magic) =>
        /\ Out.kind = "None"
        /\ Len(In) >= 16 => Out.err = "InvalidMagic"

\* b ends before one of its fixed-size fields is complete.
ClaimTruncated(b) ==
    \/ Len(b) < 16 + 4
    \/ Len(b) < 16 + ClaimHeaderBytes(b)

\* C5: a buffer that ends inside a fixed-size field (storage header,
\* standard header, extension fields, extended header, reserved field) makes
\* parse_message return the TruncatedInput error as a value, never a panic.
\* (Stated for buffers whose pattern, byte-order flag and timestamp are in
\* order, so that no other failure comes first.)
C5_TruncatedInput ==
    (/\ Called
     /\ ClaimTruncated(In)
     /\ Len(In) >= 4 => Take(In, 4) = Magic
     /\ Len(In) >= 12 => ClaimMicrosNonNegative(In)
     /\ Len(In) >= 17 => ~BitSet(ClaimFlags(In), 2)) =>
        /\ Out.kind = "None"
        /\ Out.err = "TruncatedInput"

\* C6: a buffer with the right pattern and a complete standard header whose
\* flags have bit 1 set fails with UnsupportedByteOrder, whatever the other
\* bytes are; and no returned record has bit 1 set.
C6_UnsupportedByteOrder ==
    /\ (Called /\ Len(In) >= 20 /\ Take(In, 4) = Magic
            /\ BitSet(ClaimFlags(In), 2)) =>
           (Out.kind = "None" /\ Out.err = "UnsupportedByteOrder")
    /\ \A i \in 1..Len(decoded) : ~BitSet(decoded[i].standard_header.htyp, 2)

\* The instant the claim describes: seconds plus the whole seconds of the
\* microseconds (rounding down), and the rest of the microseconds, never
\* negative, as nanoseconds.  secs is exact: hi is not reduced.
ClaimInstant(a) ==
    LET m == I32FromLeBytes(a.microseconds)
    IN  [secs |-> U32AddRaw(U32FromLeBytes(a.seconds), m \div 1000000),
         nanos |-> (m % 1000000) * 1000]

\* C7: for every seconds and microseconds value parse_storage_header
\* succeeds and yields the instant seconds + microseconds / 1,000,000 with
\* microseconds mod 1,000,000 as the sub-second part, without wrapping or
\* aborting.
C7_TimestampCarry ==
    pc = "returned" =>
        /\ ret.kind = "Some"
        /\ ret.val.timestamp = ClaimInstant(arg)

\* The last index of s that holds a non-zero byte (0: none).
ClaimLastNonZero(s) ==
    LET nz == {i \in 1..Len(s) : s[i] # 0}
    IN  IF nz = {} THEN 0 ELSE CHOOSE i \in nz : \A j \in nz : j <= i

\* C8: strip_null(s) is the prefix of s that ends at its last non-zero byte,
\* s itself when s holds no non-zero byte; it is a prefix of s, and applying
\* strip_null again changes nothing when s holds a non-zero byte.
C8_StripNull ==
    pc # "call" =>
        /\ ClaimLastNonZero(arg) = 0 => ret[1] = arg
        /\ ClaimLastNonZero(arg) # 0 => ret[1] = Take(arg, ClaimLastNonZero(arg))
        /\ Len(ret[1]) <= Len(arg) /\ ret[1] = Take(arg, Len(ret[1]))
        /\ (pc = "returned_twice" /\ ClaimLastNonZero(arg) # 0) => ret[2] = ret[1]

\* An embedded zero kept and a trailing zero removed, twice over.
C8_Witness ==
    /\ pc = "returned_twice"
    /\ arg = <<65, 0, 65, 0>>
    /\ ret = <<(<<65, 0, 65>>), (<<65, 0, 65>>)>>

ClaimLevel(l) ==
    CASE l = 1 -> "Fatal" [] l = 2 -> "Error" [] l = 3 -> "Warn"
      [] l = 4 -> "Info" [] l = 5 -> "Debug" [] l = 6 -> "Verbose"
      [] OTHER -> "Reserved"

ClaimType(t) ==
    CASE t = 0 -> "Log" [] t = 1 -> "AppTrace" [] t = 2 -> "NwTrace"
      [] t = 3 -> "Control" [] OTHER -> "Reserved"

\* C9: a message_info byte v + 2t + 16l (v bit 0, t bits 1-3, l bits 4-7) is
\* classified by t alone, and for t = 0 (Log) carries the level named by l.
C9_MessageType ==
    pc = "returned" =>
        /\ ret.kind = "Some"
        /\ \E v \in 0..1, t \in 0..7, l \in 0..15 :
              /\ arg.msin = v + 2 * t + 16 * l
              /\ ret.val.message_type.type = ClaimType(t)
              /\ ret.val.message_type.level =
                     IF t = 0 THEN ClaimLevel(l) ELSE "none"

\* 0x21: verbose bit set, type Log, level Error.
C9_Witness ==
    /\ pc = "returned"
    /\ arg.msin = 33
    /\ ret.val.message_type = [type |-> "Log", level |-> "Error"]

Terminated == pc \in {"done", "panicked"}

\* C10: every successful parse_message call returns a proper suffix of its
\* input at least 26 bytes shorter and the cursor moves to it; every step
\* of main either ends it (buffer empty, or the first failure) or shortens
\* the buffer, and main is never stuck before its end: the loop cannot run
\* forever nor come back to an earlier cursor.
C10_Terminates ==
    /\ [][(last' # last /\ last'.out.kind = "Some") =>
             /\ last'.input = data
             /\ data' = last'.out.rest
             /\ Len(data') + 26 <= Len(data)
             /\ data' = Drop(data, Len(data) - Len(data'))]_vars
    /\ [][Terminated' \/ Len(data') < Len(data)]_vars
    /\ [](Terminated \/
            /\ pc = "loop"
            /\ \/ data = <<>>
               \/ parse_message(data, overflow_checks).kind
                      \in {"Some", "None", "Panic"})

\* main at its end after decoding as many records as a stream may hold.
C10_Witness ==
    /\ pc = "done"
    /\ Len(decoded) = MaxRecords
    /\ data = <<>>

=============================================================================
